---- MODULE Spec2Model ----
(***************************************************************************)
(* bmdb: a thin wrapper around sqlite3 (BMDB), a fluent query builder      *)
(* (Database/Table) and an active-record ORM (Model/Field).                *)
(*                                                                         *)
(* Encoding of values.  A Python dict, the attribute set of a model        *)
(* instance and a table row are all functions from names to values.  A     *)
(* key that is absent from the function stands for Python None / SQL NULL: *)
(* `getattr(self, f, None) is not None` is `f \in DOMAIN attrs`.           *)
(***************************************************************************)
EXTENDS Integers, Sequences, FiniteSets, TLC

\* Largest rowid a table may hand out; INSERTs beyond it are not taken.
MaxId == 2

\* Longest parameter list a Table may collect; where() beyond it is not taken.
MaxParams == 2

Names == {"a", "b"}
Texts == {"t"}
Ids == 1..MaxId

EmptyDict == [k \in {} |-> 0]

Restrict(f, S) == [k \in (DOMAIN f) \cap S |-> f[k]]

Range(s) == {s[i] : i \in DOMAIN s}

Max(S) == IF S = {} THEN 0 ELSE CHOOSE m \in S : \A x \in S : x <= m

\* The element of a one-element set.  The({e(x) : x \in {v}}) is e with x
\* bound to the value of v, worked out once.
The(S) == CHOOSE x \in S : TRUE

VARIABLES
    committed,   \* sqlite: the database as of the last COMMIT
    working,     \* sqlite: the database as the connection sees it (open transaction included)
    clsdb,       \* Model classes: the class's own `_db` attribute ("Unset": none of its own)
    obj,         \* the model instance in hand: [cls, attrs]
    tbl,         \* the Table query builder in hand: [where, order_by, limit, params]
    chain,       \* history: what the calls of the current call chain on tbl have set
    last,        \* history: the last operation, what it raised and the SQL it executed
    field,       \* the Field descriptor in hand
    sql,         \* the string Field.to_sql returned for it ("" before the call)
    bm,          \* the BMDB object in hand and the with-block around it
    cli          \* the last run of the command line: its arguments and exit code

vars == <<committed, working, clsdb, obj, tbl, chain, last, field, sql, bm, cli>>

\* What the ORM, the query builder and BMDB.execute on an open connection
\* leave alone.
apart == <<field, sql, bm, cli>>

(***************************************************************************)
(* sqlite3, as far as bmdb uses it.  A table is                            *)
(*   [exists, pk, auto, rows, seq]                                         *)
(* pk is the INTEGER PRIMARY KEY column ("" when there is none), auto      *)
(* whether it is AUTOINCREMENT, rows the set of rows (each carries its     *)
(* rowid), seq the largest rowid ever handed out (sqlite_sequence).        *)
(***************************************************************************)
TableNames == {"users", "notes"}

NoTable == [exists |-> FALSE, pk |-> "", auto |-> FALSE, rows |-> {}, seq |-> 0]

EmptyDatabase == [t \in TableNames |-> NoTable]

\* A WHERE string is the AND of comparisons, each with one "?" placeholder.
Placeholders(where) == Len(where)

Holds(row, cond, p) ==
    /\ cond.col \in DOMAIN row
    /\ IF cond.cmp = ">=" THEN row[cond.col] >= p ELSE row[cond.col] = p

\* params binds the placeholders of where in order, starting after `skip` of them.
Matches(row, where, params, skip) ==
    \A i \in 1..Len(where) : Holds(row, where[i], params[skip + i])

\* dict(row) of a sqlite3.Row: the declared columns, without the hidden rowid.
RowDict(row) == Restrict(row, (DOMAIN row) \ {"rowid"})

\* Rows in the order a table scan yields them (by rowid).
RECURSIVE ScanOrder(_)
ScanOrder(rows) ==
    IF rows = {} THEN <<>>
    ELSE LET r == CHOOSE x \in rows : \A y \in rows : x.rowid <= y.rowid
         IN  <<r>> \o ScanOrder(rows \ {r})

(***************************************************************************)
(* SQL statements, as records:                                             *)
(*   [op "CREATE", table, columns]        CREATE TABLE IF NOT EXISTS       *)
(*   [op "INSERT", table, rows, or_fail]  INSERT [OR FAIL] ... VALUES ...  *)
(*   [op "UPDATE", table, data, where, params]                             *)
(*   [op "DELETE", table, where, params]                                   *)
(*   [op "SELECT", table, where, params, order_by, limit, count]           *)
(*   [op "ROWID"]                         SELECT last_insert_rowid()       *)
(* The outcome of cursor.execute is [db, exc, rows, lastrowid, full]: the  *)
(* database afterwards, the exception raised ("none" when none), the rows  *)
(* fetched, last_insert_rowid(), and whether it ran out of rowids.         *)
(***************************************************************************)
Outcome(db, exc, rows, rowid) ==
    [db |-> db, exc |-> exc, rows |-> rows, lastrowid |-> rowid, full |-> FALSE]

\* The rowid sqlite gives a new row: the INTEGER PRIMARY KEY when supplied,
\* else one past the largest in use (AUTOINCREMENT: the largest ever used).
NewRowid(t, data) ==
    IF t.pk # "" /\ t.pk \in DOMAIN data THEN data[t.pk]
    ELSE IF t.auto THEN t.seq + 1
    ELSE Max({r.rowid : r \in t.rows}) + 1

StoredRow(t, data, rowid) ==
    IF t.pk = "" THEN data @@ ("rowid" :> rowid)
    ELSE (t.pk :> rowid) @@ ("rowid" :> rowid) @@ data

\* INSERT row by row.  A row whose key is taken raises IntegrityError: plain
\* INSERT (ON CONFLICT ABORT) undoes the statement's own earlier rows,
\* INSERT OR FAIL leaves them in the open transaction.
RECURSIVE InsertRows(_, _, _, _, _)
InsertRows(db0, db, stmt, i, rowid) ==
    IF i > Len(stmt.rows) THEN Outcome(db, "none", <<>>, rowid)
    ELSE LET t    == db[stmt.table]
             data == stmt.rows[i]
             id   == NewRowid(t, data)
         IN  IF DOMAIN data = {}
                 THEN Outcome(db0, "OperationalError", <<>>, 0)
             ELSE IF id > MaxId
                 THEN [Outcome(db0, "none", <<>>, 0) EXCEPT !.full = TRUE]
             ELSE IF \E r \in t.rows : r.rowid = id
                 THEN Outcome(IF stmt.or_fail THEN db ELSE db0, "IntegrityError", <<>>, 0)
             ELSE InsertRows(db0,
                    [db EXCEPT ![stmt.table] =
                        [t EXCEPT !.rows = @ \cup {StoredRow(t, data, id)},
                                  !.seq  = IF id > @ THEN id ELSE @]],
                    stmt, i + 1, id)

UpdatedRow(t, row, data) ==
    LET merged == data @@ row
    IN  IF t.pk # "" /\ t.pk \in DOMAIN data
            THEN [merged EXCEPT !["rowid"] = data[t.pk]]
            ELSE merged

UpdatedRows(t, stmt) ==
    The({(t.rows \ hit) \cup {UpdatedRow(t, r, stmt.data) : r \in hit} :
            hit \in {{r \in t.rows : Matches(r, stmt.where, stmt.params, 0)}}})

RunUpdate(db, stmt) ==
    IF DOMAIN stmt.data = {} \/ stmt.where = <<>>
        THEN Outcome(db, "OperationalError", <<>>, 0)
    ELSE The({ IF Cardinality({r.rowid : r \in rows}) # Cardinality(db[stmt.table].rows)
                   THEN Outcome(db, "IntegrityError", <<>>, 0)
                   ELSE Outcome([db EXCEPT ![stmt.table].rows = rows], "none", <<>>, 0) :
               rows \in {UpdatedRows(db[stmt.table], stmt)} })

RunDelete(db, stmt) ==
    LET t   == db[stmt.table]
        hit == {r \in t.rows : Matches(r, stmt.where, stmt.params, 0)}
    IN  IF stmt.where = <<>>
            THEN Outcome(db, "OperationalError", <<>>, 0)
            ELSE Outcome([db EXCEPT ![stmt.table].rows = @ \ hit], "none", <<>>, 0)

Take(s, n) == IF Len(s) <= n THEN s ELSE SubSeq(s, 1, n)

Reverse(s) == [i \in 1..Len(s) |-> s[Len(s) + 1 - i]]

\* order_by is "" (none: scan order), "ASC" or "DESC" on the rowid column;
\* limit is <<>> (no LIMIT clause) or <<n>>.
Sorted(rows, order_by) ==
    IF order_by = "DESC" THEN Reverse(ScanOrder(rows)) ELSE ScanOrder(rows)

Limited(rows, limit) == IF limit # <<>> THEN Take(rows, limit[1]) ELSE rows

RunSelect(db, stmt) ==
    The({ IF stmt.count
              THEN Outcome(db, "none", <<("COUNT(*)" :> Cardinality(hit))>>, 0)
              ELSE The({ Outcome(db, "none", [i \in 1..Len(some) |-> RowDict(some[i])], 0) :
                         some \in {Limited(Sorted(hit, stmt.order_by), stmt.limit)} }) :
          hit \in {{r \in db[stmt.table].rows : Matches(r, stmt.where, stmt.params, 0)}} })

\* sqlite3 wants exactly as many bindings as the statement has placeholders.
Bindings(stmt) ==
    CASE stmt.op = "UPDATE" -> Cardinality(DOMAIN stmt.data) + Placeholders(stmt.where)
      [] stmt.op \in {"DELETE", "SELECT"} -> Placeholders(stmt.where)
      [] OTHER -> 0

Supplied(stmt) ==
    CASE stmt.op = "UPDATE" -> Cardinality(DOMAIN stmt.data) + Len(stmt.params)
      [] stmt.op \in {"DELETE", "SELECT"} -> Len(stmt.params)
      [] OTHER -> 0

PrimaryKeys(columns) == {i \in DOMAIN columns : columns[i].primary_key}

CreatedTable(columns) ==
    LET pks == PrimaryKeys(columns)
        k   == CHOOSE i \in pks : TRUE
    IN  IF pks = {} THEN [NoTable EXCEPT !.exists = TRUE]
        ELSE [NoTable EXCEPT !.exists = TRUE,
                             !.pk = columns[k].name,
                             !.auto = columns[k].auto_increment]

\* cursor.execute(sql, params) on the connection's view of the database.
CursorExecute(db, stmt) ==
    IF stmt.op = "CREATE" THEN
        IF Len(stmt.columns) = 0 \/ Cardinality(PrimaryKeys(stmt.columns)) > 1
            THEN Outcome(db, "OperationalError", <<>>, 0)
        ELSE IF db[stmt.table].exists THEN Outcome(db, "none", <<>>, 0)
        ELSE Outcome([db EXCEPT ![stmt.table] = CreatedTable(stmt.columns)], "none", <<>>, 0)
    ELSE IF ~ db[stmt.table].exists THEN Outcome(db, "OperationalError", <<>>, 0)
    ELSE IF Bindings(stmt) # Supplied(stmt) THEN Outcome(db, "ProgrammingError", <<>>, 0)
    ELSE CASE stmt.op = "INSERT" -> InsertRows(db, db, stmt, 1, 0)
           [] stmt.op = "UPDATE" -> RunUpdate(db, stmt)
           [] stmt.op = "DELETE" -> RunDelete(db, stmt)
           [] stmt.op = "SELECT" -> RunSelect(db, stmt)

(***************************************************************************)
(* BMDB (core.py).  The connection is [committed, working, rowid]; rowid   *)
(* is last_insert_rowid(), which bmdb reads only right after its own       *)
(* INSERT and which is therefore not kept between operations.              *)
(* An optional Python argument is <<>> for None and <<v>> for the value v. *)
(***************************************************************************)
Unwrap(opt) == IF opt = <<>> THEN <<>> ELSE opt[1]

Cursor(conn, stmt) ==
    IF stmt.op = "ROWID"
        THEN Outcome(conn.working, "none", <<("rowid" :> conn.rowid)>>, conn.rowid)
        ELSE CursorExecute(conn.working, stmt)

Commit(conn) == [conn EXCEPT !.committed = conn.working]

\* The except branch without self.connection.rollback().
Rollback_missing(conn) == conn

Rollback(conn) == [conn EXCEPT !.working = conn.committed]

\* What a BMDB call hands back: the connection afterwards, the exception that
\* left it, the rows, and the statements it sent to the cursor.
Result(conn, exc, rows, log, full) ==
    [conn |-> conn, exc |-> exc, rows |-> rows, log |-> log, full |-> full]

\* The connection once the cursor has run the statement, with outcome r.
Executed(conn, stmt, r) ==
    [conn EXCEPT !.working = r.db,
                 !.rowid = IF r.exc = "none" /\ stmt.op = "INSERT" THEN r.lastrowid ELSE @]

BMDB_execute(conn, stmt) ==
    The({ IF r.exc = "none"
              THEN Result(Commit(Executed(conn, stmt, r)), "none", r.rows, <<stmt>>, r.full)
              ELSE Result(Rollback(Executed(conn, stmt, r)), r.exc, <<>>, <<stmt>>, r.full) :
          r \in {Cursor(conn, stmt)} })

BMDB_insert(conn, table_name, data) ==
    BMDB_execute(conn, [op |-> "INSERT", table |-> table_name,
                        rows |-> <<data>>, or_fail |-> FALSE])

BMDB_select(conn, table_name, where, params, limit, order_by) ==
    BMDB_execute(conn, [op |-> "SELECT", table |-> table_name,
                        where |-> Unwrap(where),
                        params |-> params,
                        order_by |-> order_by,
                        limit |-> IF limit # <<>> /\ limit[1] # 0 THEN limit ELSE <<>>,
                        count |-> FALSE])

BMDB_update(conn, table_name, data, where, params) ==
    BMDB_execute(conn, [op |-> "UPDATE", table |-> table_name, data |-> data,
                        where |-> Unwrap(where), params |-> params])

BMDB_delete(conn, table_name, where, params) ==
    BMDB_execute(conn, [op |-> "DELETE", table |-> table_name,
                        where |-> Unwrap(where), params |-> params])

(***************************************************************************)
(* Model (models.py).  Three classes: Model itself, and two subclasses     *)
(*   class User(Model): __tablename__ = "users"                            *)
(*       id = Field("id", "INTEGER", primary_key=True, auto_increment=True)*)
(*       name = Field("name", "TEXT")                                      *)
(*   class Note(Model): __tablename__ = "notes"                            *)
(*       text = Field("text", "TEXT")                                      *)
(* One BMDB object, "db1", exists; a class's `_db` is "None" or "db1".     *)
(***************************************************************************)
Classes == {"Model", "User", "Note"}

Subclasses == {"User", "Note"}

Field(name, primary_key, auto_increment) ==
    [name |-> name, primary_key |-> primary_key, auto_increment |-> auto_increment]

\* ModelMeta.__new__: the class's Field attributes, in declaration order.
fields(cls) ==
    CASE cls = "User" -> <<Field("id", TRUE, TRUE), Field("name", FALSE, FALSE)>>
      [] cls = "Note" -> <<Field("text", FALSE, FALSE)>>
      [] OTHER        -> <<>>

table_name(cls) ==
    CASE cls = "User" -> "users" [] cls = "Note" -> "notes" [] OTHER -> "models"

FieldNames(cls) == {f.name : f \in Range(fields(cls))}

\* `cls._db`: the class's own attribute, else the one inherited from Model.
db_of(cls) == IF clsdb[cls] # "Unset" THEN clsdb[cls] ELSE clsdb["Model"]

\* next((f for f in self._fields.values() if f.primary_key), None)
pk_field(cls) ==
    LET fs  == fields(cls)
        pks == {i \in DOMAIN fs : fs[i].primary_key}
    IN  IF pks = {} THEN <<>> ELSE <<fs[CHOOSE i \in pks : \A j \in pks : i <= j]>>

\* Model.__init__: every declared field from kwargs, else its default (None).
Model_init(cls, kwargs) == Restrict(kwargs, FieldNames(cls))

\* What a Model call hands back: the connection, the exception that left it,
\* the instance's attributes afterwards, the value returned (a sequence of
\* attribute sets) and the SQL sent.
MResult(conn, exc, attrs, ret, log, full) ==
    [conn |-> conn, exc |-> exc, attrs |-> attrs, ret |-> ret, log |-> log, full |-> full]

PkWhere(pk) == << <<[col |-> pk.name, cmp |-> "="]>> >>

Model_create_table(conn, db, cls) ==
    IF db = "None" THEN MResult(conn, "ValueError", EmptyDict, <<>>, <<>>, FALSE)
    ELSE The({ MResult(r.conn, r.exc, EmptyDict, <<>>, r.log, r.full) :
               r \in {BMDB_execute(conn, [op |-> "CREATE", table |-> table_name(cls),
                                          columns |-> fields(cls)])} })

\* Model_save with the dispatch lost: it inserts whether or not the instance
\* has a primary-key value.
Model_save_always_insert(conn, db, cls, attrs) ==
    IF db = "None" THEN MResult(conn, "ValueError", attrs, <<>>, <<>>, FALSE)
    ELSE The({ MResult(r.conn, r.exc, attrs, <<>>, r.log, r.full) :
               r \in {BMDB_insert(conn, table_name(cls), Restrict(attrs, FieldNames(cls)))} })

\* The rest of save after an INSERT with result r: the new rowid is read back
\* into the primary-key attribute when that field is auto-increment.
SaveInserted(cls, attrs, pk, r) ==
    IF r.exc = "none" /\ pk # <<>> /\ pk[1].auto_increment
    THEN The({ MResult(q.conn, q.exc, (pk[1].name :> q.rows[1]["rowid"]) @@ attrs,
                       <<>>, r.log \o q.log, r.full) :
               q \in {BMDB_execute(r.conn, [op |-> "ROWID"])} })
    ELSE MResult(r.conn, r.exc, attrs, <<>>, r.log, r.full)

\* Model_save without reading last_insert_rowid() back after the INSERT.
Model_save_pk_unset(conn, db, cls, attrs) ==
    IF db = "None" THEN MResult(conn, "ValueError", attrs, <<>>, <<>>, FALSE)
    ELSE LET data == Restrict(attrs, FieldNames(cls))
             pk   == pk_field(cls)
         IN  IF pk # <<>> /\ pk[1].name \in DOMAIN attrs
             THEN The({ MResult(r.conn, r.exc, attrs, <<>>, r.log, r.full) :
                        r \in {BMDB_update(conn, table_name(cls), data,
                                           PkWhere(pk[1]), <<attrs[pk[1].name]>>)} })
             ELSE The({ MResult(r.conn, r.exc, attrs, <<>>, r.log, r.full) :
                        r \in {BMDB_insert(conn, table_name(cls), data)} })

Model_save(conn, db, cls, attrs) ==
    IF db = "None" THEN MResult(conn, "ValueError", attrs, <<>>, <<>>, FALSE)
    ELSE LET data == Restrict(attrs, FieldNames(cls))
             pk   == pk_field(cls)
         IN  IF pk # <<>> /\ pk[1].name \in DOMAIN attrs
             THEN The({ MResult(r.conn, r.exc, attrs, <<>>, r.log, r.full) :
                        r \in {BMDB_update(conn, table_name(cls), data,
                                           PkWhere(pk[1]), <<attrs[pk[1].name]>>)} })
             ELSE The({ SaveInserted(cls, attrs, pk, r) :
                        r \in {BMDB_insert(conn, table_name(cls), data)} })

\* Model_get with only the first keyword argument in the condition.
Model_get_first_only(conn, db, cls, kwargs) ==
    IF db = "None" THEN MResult(conn, "ValueError", EmptyDict, <<>>, <<>>, FALSE)
    ELSE IF kwargs = <<>> THEN MResult(conn, "ValueError", EmptyDict, <<>>, <<>>, FALSE)
    ELSE The({ IF r.rows # <<>>
                   THEN MResult(r.conn, r.exc, EmptyDict,
                                <<Model_init(cls, r.rows[1])>>, r.log, r.full)
                   ELSE MResult(r.conn, r.exc, EmptyDict, <<>>, r.log, r.full) :
               r \in {BMDB_select(conn, table_name(cls),
                                  << <<[col |-> kwargs[1].k, cmp |-> "="]>> >>,
                                  <<kwargs[1].v>>, <<1>>, "")} })

\* kwargs is the sequence of the keyword arguments, each [k, v].
Model_get(conn, db, cls, kwargs) ==
    IF db = "None" THEN MResult(conn, "ValueError", EmptyDict, <<>>, <<>>, FALSE)
    ELSE IF kwargs = <<>> THEN MResult(conn, "ValueError", EmptyDict, <<>>, <<>>, FALSE)
    ELSE LET where  == [i \in DOMAIN kwargs |-> [col |-> kwargs[i].k, cmp |-> "="]]
             params == [i \in DOMAIN kwargs |-> kwargs[i].v]
         IN  The({ IF r.rows # <<>>
                       THEN MResult(r.conn, r.exc, EmptyDict,
                                    <<Model_init(cls, r.rows[1])>>, r.log, r.full)
                       ELSE MResult(r.conn, r.exc, EmptyDict, <<>>, r.log, r.full) :
                   r \in {BMDB_select(conn, table_name(cls), <<where>>, params, <<1>>, "")} })

\* Model_all without the `if not cls._db` check.
Model_all_unchecked(conn, db, cls) ==
    The({ MResult(r.conn, r.exc, EmptyDict,
                  [i \in DOMAIN r.rows |-> Model_init(cls, r.rows[i])], r.log, r.full) :
          r \in {BMDB_select(conn, table_name(cls), <<>>, <<>>, <<>>, "")} })

Model_all(conn, db, cls) ==
    IF db = "None" THEN MResult(conn, "ValueError", EmptyDict, <<>>, <<>>, FALSE)
    ELSE The({ MResult(r.conn, r.exc, EmptyDict,
                       [i \in DOMAIN r.rows |-> Model_init(cls, r.rows[i])], r.log, r.full) :
               r \in {BMDB_select(conn, table_name(cls), <<>>, <<>>, <<>>, "")} })

Model_where(conn, db, cls, condition, params) ==
    IF db = "None" THEN MResult(conn, "ValueError", EmptyDict, <<>>, <<>>, FALSE)
    ELSE The({ MResult(r.conn, r.exc, EmptyDict,
                       [i \in DOMAIN r.rows |-> Model_init(cls, r.rows[i])], r.log, r.full) :
               r \in {BMDB_select(conn, table_name(cls), <<condition>>, params, <<>>, "")} })

\* Model_delete without the `if not pk_field` check: it goes by the first
\* declared field when the class has no primary key.
Model_delete_any_key(conn, db, cls, attrs) ==
    LET pk  == pk_field(cls)
        key == IF pk = <<>> THEN fields(cls)[1] ELSE pk[1]
    IN  IF db = "None" THEN MResult(conn, "ValueError", attrs, <<>>, <<>>, FALSE)
        ELSE IF key.name \notin DOMAIN attrs
            THEN MResult(conn, "ValueError", attrs, <<>>, <<>>, FALSE)
        ELSE The({ MResult(r.conn, r.exc, attrs, <<>>, r.log, r.full) :
                   r \in {BMDB_delete(conn, table_name(cls), PkWhere(key),
                                      <<attrs[key.name]>>)} })

\* Model_delete with the condition "<pk> >= ?" in place of "<pk> = ?".
Model_delete_from(conn, db, cls, attrs) ==
    LET pk == pk_field(cls)
    IN  IF db = "None" THEN MResult(conn, "ValueError", attrs, <<>>, <<>>, FALSE)
        ELSE IF pk = <<>> THEN MResult(conn, "ValueError", attrs, <<>>, <<>>, FALSE)
        ELSE IF pk[1].name \notin DOMAIN attrs
            THEN MResult(conn, "ValueError", attrs, <<>>, <<>>, FALSE)
        ELSE The({ MResult(r.conn, r.exc, attrs, <<>>, r.log, r.full) :
                   r \in {BMDB_delete(conn, table_name(cls),
                                      << <<[col |-> pk[1].name, cmp |-> ">="]>> >>,
                                      <<attrs[pk[1].name]>>)} })

Model_delete(conn, db, cls, attrs) ==
    LET pk == pk_field(cls)
    IN  IF db = "None" THEN MResult(conn, "ValueError", attrs, <<>>, <<>>, FALSE)
        ELSE IF pk = <<>> THEN MResult(conn, "ValueError", attrs, <<>>, <<>>, FALSE)
        ELSE IF pk[1].name \notin DOMAIN attrs
            THEN MResult(conn, "ValueError", attrs, <<>>, <<>>, FALSE)
        ELSE The({ MResult(r.conn, r.exc, attrs, <<>>, r.log, r.full) :
                   r \in {BMDB_delete(conn, table_name(cls), PkWhere(pk[1]),
                                      <<attrs[pk[1].name]>>)} })

\* to_dict: every declared field with its value (None where it has none).
Model_to_dict(cls, attrs) == Restrict(attrs, FieldNames(cls))

\* from_dict / from_json: cls(**data).
Model_from_dict(cls, data) == Model_init(cls, data)

(***************************************************************************)
(* The ORM as a state machine: one step per call a program makes.          *)
(***************************************************************************)
Conn == [committed |-> committed, working |-> working, rowid |-> 0]

NewTable == [where |-> <<>>, order_by |-> <<>>, limit |-> <<>>, params |-> <<>>]

\* The call chain in progress on tbl: the condition and parameters its own
\* where() calls have given, whether it is still being built, and, once its
\* last call has run, the condition and parameters of the statement it sent.
NewChain == [where |-> <<>>, params |-> <<>>, open |-> TRUE, sent |-> <<>>]

\* A default value of a Field: None is <<>>, an int or a str is <<d>> with d
\* the value under its type.
NoDefault == <<>>
IntDefault(n) == <<[type |-> "int", int |-> n, str |-> ""]>>
StrDefault(t) == <<[type |-> "str", int |-> 0, str |-> t]>>

\* The dataclass Field with every attribute it declares.
FieldOf(name, type, primary_key, nullable, default, unique, auto_increment) ==
    [name |-> name, type |-> type, primary_key |-> primary_key, nullable |-> nullable,
     default |-> default, unique |-> unique, auto_increment |-> auto_increment]

\* Field("name", "TEXT"): every flag at its declared default.
PlainField == FieldOf("name", "TEXT", FALSE, TRUE, NoDefault, FALSE, FALSE)

\* A BMDB object: its connection_string, its connection ("None", or the
\* sqlite3 connection, "open" or "closed"), how many sqlite3 connections it
\* has opened, and whether control is inside a with-block on it.
BMDBOf(connection_string, connection, opened, block) ==
    [connection_string |-> connection_string, connection |-> connection,
     opened |-> opened, block |-> block]

\* BMDB(): connection_string "sqlite:///:memory:", the connection open.
MemoryBMDB == BMDBOf("sqlite:///:memory:", "open", 1, "out")

\* No command line run yet.
NoRun == [command |-> "", database |-> "", code |-> 0]

\* Everything but the Field and the BMDB object in hand.
InitCommon ==
    /\ committed = EmptyDatabase
    /\ working = EmptyDatabase
    /\ clsdb = [c \in Classes |-> IF c = "Model" THEN "None" ELSE "Unset"]
    /\ obj = [cls |-> "User", attrs |-> EmptyDict]
    /\ tbl = NewTable
    /\ chain = NewChain
    /\ last = [op |-> "init", exc |-> "none", log |-> <<>>, removed |-> 0, added |-> 0,
            returned |-> 0]
    /\ sql = ""
    /\ cli = NoRun

Init ==
    /\ InitCommon
    /\ field = PlainField
    /\ bm = MemoryBMDB

\* The keyword arguments of a constructor call, per class.
Kwargs(cls) ==
    IF cls = "User"
    THEN {EmptyDict}
         \cup {"id" :> i : i \in Ids}
         \cup {"name" :> n : n \in Names}
         \cup {("id" :> i) @@ ("name" :> n) : i \in Ids, n \in Names}
    ELSE {EmptyDict} \cup {"text" :> t : t \in Texts}

\* The keyword arguments of a Model.get call, in the order written.
GetKwargs(cls) ==
    IF cls = "User"
    THEN {<<>>}
         \cup {<<[k |-> "id", v |-> i]>> : i \in Ids}
         \cup {<<[k |-> "name", v |-> n]>> : n \in Names}
         \cup {<<[k |-> "id", v |-> i], [k |-> "name", v |-> n]>> : i \in Ids, n \in Names}
    ELSE {<<>>} \cup {<<[k |-> "text", v |-> t]>> : t \in Texts}

\* The condition and parameters of a Model.where call.
WhereArgs(cls) ==
    IF cls = "User"
    THEN {[condition |-> <<[col |-> "name", cmp |-> "="]>>, params |-> <<n>>] : n \in Names}
    ELSE {[condition |-> <<[col |-> "text", cmp |-> "="]>>, params |-> <<t>>] : t \in Texts}

\* What `last` keeps of a statement sent: all of it, but of a SELECT only
\* that it was one and on which table.
Logged(stmt) ==
    IF stmt.op = "SELECT" THEN [op |-> "SELECT", table |-> stmt.table] ELSE stmt

\* The rows of a database, each with its table.
RowsOf(db) == UNION {{<<t, r>> : r \in db[t].rows} : t \in TableNames}

\* What a call hands back as a list: the rows of a BMDB or Table call, the
\* instances of a Model call (get: the one instance, or none).
Returned(r) == IF "rows" \in DOMAIN r THEN r.rows ELSE r.ret

\* The effect of a call on the connection, and its record in `last`: the
\* operation, the exception that left it, the statements it sent, how many
\* rows it removed from and added to the tables (a changed row counts as
\* both), and the length of the list it returned.
Called(r, op) ==
    /\ ~ r.full
    /\ committed' = r.conn.committed
    /\ working' = r.conn.working
    /\ last' = [op |-> op, exc |-> r.exc,
                log |-> [i \in DOMAIN r.log |-> Logged(r.log[i])],
                removed |-> Cardinality(RowsOf(working) \ RowsOf(r.conn.working)),
                added |-> Cardinality(RowsOf(r.conn.working) \ RowsOf(working)),
                returned |-> Len(Returned(r))]

NoCall(op) ==
    /\ last' = [op |-> op, exc |-> "none", log |-> <<>>, removed |-> 0, added |-> 0,
            returned |-> 0]
    /\ UNCHANGED <<committed, working>>

set_database(cls) ==
    /\ clsdb' = [clsdb EXCEPT ![cls] = "db1"]
    /\ NoCall("set_database")
    /\ UNCHANGED <<obj, tbl, chain, apart>>

\* A constructor that also writes the new instance to its table.
Construct_saving(cls, kwargs) ==
    \E r \in {Model_save(Conn, db_of(cls), cls, Model_init(cls, kwargs))} :
        /\ Called(r, "init")
        /\ obj' = [cls |-> cls, attrs |-> r.attrs]
        /\ UNCHANGED <<clsdb, tbl, chain, apart>>

Construct(cls, kwargs) ==
    /\ obj' = [cls |-> cls, attrs |-> Model_init(cls, kwargs)]
    /\ NoCall("init")
    /\ UNCHANGED <<clsdb, tbl, chain, apart>>

\* obj.<name> = value, or = None
SetAttr(name, value) ==
    /\ name \in FieldNames(obj.cls)
    /\ obj' = [obj EXCEPT !.attrs = value @@ Restrict(@, (DOMAIN @) \ {name})]
    /\ NoCall("setattr")
    /\ UNCHANGED <<clsdb, tbl, chain, apart>>

create_table(cls) ==
    \E r \in {Model_create_table(Conn, db_of(cls), cls)} :
        /\ Called(r, "create_table")
        /\ UNCHANGED <<clsdb, obj, tbl, chain, apart>>

save ==
    \E r \in {Model_save(Conn, db_of(obj.cls), obj.cls, obj.attrs)} :
        /\ Called(r, "save")
        /\ obj' = [obj EXCEPT !.attrs = r.attrs]
        /\ UNCHANGED <<clsdb, tbl, chain, apart>>

\* x = cls.get(**kwargs); the instance in hand becomes x when x is not None.
get(cls, kwargs) ==
    \E r \in {Model_get(Conn, db_of(cls), cls, kwargs)} :
        /\ Called(r, "get")
        /\ obj' = IF r.ret # <<>> THEN [cls |-> cls, attrs |-> r.ret[1]] ELSE obj
        /\ UNCHANGED <<clsdb, tbl, chain, apart>>

all(cls) ==
    \E r \in {Model_all(Conn, db_of(cls), cls)} :
        /\ Called(r, "all")
        /\ UNCHANGED <<clsdb, obj, tbl, chain, apart>>

where(cls, condition, params) ==
    \E r \in {Model_where(Conn, db_of(cls), cls, condition, params)} :
        /\ Called(r, "where")
        /\ UNCHANGED <<clsdb, obj, tbl, chain, apart>>

delete ==
    \E r \in {Model_delete(Conn, db_of(obj.cls), obj.cls, obj.attrs)} :
        /\ Called(r, "delete")
        /\ obj' = [obj EXCEPT !.attrs = r.attrs]
        /\ UNCHANGED <<clsdb, tbl, chain, apart>>

\* cls.from_dict(obj.to_dict()), and the same through to_json / from_json
from_dict(cls) ==
    /\ obj' = [cls |-> cls, attrs |-> Model_from_dict(cls, Model_to_dict(obj.cls, obj.attrs))]
    /\ NoCall("from_dict")
    /\ UNCHANGED <<clsdb, tbl, chain, apart>>

Next ==
    \/ \E cls \in {"Model", "User"} : set_database(cls)
    \/ \E cls \in Subclasses : \E kwargs \in Kwargs(cls) : Construct(cls, kwargs)
    \/ \E n \in Names : SetAttr("name", "name" :> n)
    \/ \E t \in Texts : SetAttr("text", "text" :> t)
    \/ \E f \in {"id", "name", "text"} : SetAttr(f, EmptyDict)
    \/ \E cls \in Subclasses : create_table(cls)
    \/ save
    \/ \E cls \in Subclasses : \E kwargs \in GetKwargs(cls) : get(cls, kwargs)
    \/ \E cls \in Subclasses : all(cls)
    \/ \E cls \in Subclasses : \E w \in WhereArgs(cls) : where(cls, w.condition, w.params)
    \/ delete
    \/ \E cls \in Subclasses : from_dict(cls)

Spec == Init /\ [][Next]_vars

(***************************************************************************)
(* Claims about the ORM, checked under Spec.                               *)
(***************************************************************************)
\* The instance in hand has no primary key to go by: its class declares no
\* primary-key field, or its primary-key attribute is None.
NoPkValue ==
    \/ pk_field(obj.cls) = <<>>
    \/ pk_field(obj.cls)[1].name \notin DOMAIN obj.attrs

\* Model.get(<pk> = v) run against the database db.
GetByPk(db, cls, v) ==
    Model_get([committed |-> db, working |-> db, rowid |-> 0], "db1", cls,
              <<[k |-> pk_field(cls)[1].name, v |-> v]>>).ret

\* C1: delete() on an instance without a primary-key field or value raises
\* ValueError, sends no statement, and leaves every table as it was.
C1_DeleteWithoutPkRaises ==
    [][(last'.op = "delete" /\ NoPkValue)
        => /\ last'.exc = "ValueError"
           /\ last'.log = <<>>
           /\ working' = working
           /\ committed' = committed]_vars

\* C1 happens: a Note (no primary-key field) whose text is in the table was
\* asked to delete itself, with the database set.
C1_Witness ==
    /\ last.op = "delete"
    /\ last.exc = "ValueError"
    /\ obj.cls = "Note"
    /\ db_of("Note") = "db1"
    /\ \E r \in working["notes"].rows : RowDict(r) = obj.attrs

\* C2: with the database set, save() sends exactly one UPDATE ... WHERE <pk> = ?
\* bound to the instance's primary-key value when the class has a primary-key
\* field and the attribute is not None, and otherwise an INSERT and no UPDATE.
C2_SaveDispatch ==
    [][(last'.op = "save" /\ db_of(obj.cls) = "db1")
        => IF NoPkValue
           THEN /\ last'.log # <<>>
                /\ last'.log[1].op = "INSERT"
                /\ \A i \in DOMAIN last'.log : last'.log[i].op # "UPDATE"
           ELSE LET pk == pk_field(obj.cls)[1].name
                IN  /\ Len(last'.log) = 1
                    /\ last'.log[1].op = "UPDATE"
                    /\ last'.log[1].table = table_name(obj.cls)
                    /\ last'.log[1].where = <<[col |-> pk, cmp |-> "="]>>
                    /\ last'.log[1].params = <<obj.attrs[pk]>>]_vars

\* C2 happens: a save went out as an UPDATE and changed a row.
C2_Witness ==
    /\ last.op = "save"
    /\ last.exc = "none"
    /\ last.log[1].op = "UPDATE"
    /\ last.added = 1

\* C3: once save() has returned without raising, the table holds a row with the
\* instance's non-None field values, and Model.get on its primary key gives
\* the instance back.
C3_SavePersists ==
    (last.op = "save" /\ last.exc = "none")
        => /\ \E r \in working[table_name(obj.cls)].rows :
                 \A f \in DOMAIN obj.attrs : f \in DOMAIN r /\ r[f] = obj.attrs[f]
           /\ ~ NoPkValue =>
                 GetByPk(working, obj.cls, obj.attrs[pk_field(obj.cls)[1].name])
                     = <<obj.attrs>>

\* C4: delete() on an instance with a primary-key value removes exactly the
\* rows with that key: Model.get on the key then returns None, and the rows
\* with another key are the same as before.
C4_DeleteRemovesOnlyThatRow ==
    [][(last'.op = "delete" /\ last'.exc = "none")
        => LET t  == table_name(obj.cls)
               pk == pk_field(obj.cls)[1].name
           IN  /\ GetByPk(working', obj.cls, obj.attrs[pk]) = <<>>
               /\ working'[t].rows = {r \in working[t].rows : r[pk] # obj.attrs[pk]}
               /\ \A u \in TableNames \ {t} : working'[u] = working[u]]_vars

\* C4 happens: a saved row was deleted and another row is still there.
C4_Witness ==
    /\ last.op = "delete"
    /\ last.exc = "none"
    /\ last.removed = 1
    /\ working["users"].rows # {}

\* C5: the rows of the tables change only in a save() or a delete(): not when
\* an instance is constructed or assigned to, not in to_dict / from_dict, and
\* not in the calls that read.
C5_OnlySaveAndDeleteWrite ==
    [][RowsOf(working') # RowsOf(working) => last'.op \in {"save", "delete"}]_vars

\* C5 happens: an instance with values was built from a dict while its table
\* exists, the database is set, and no row carries those values.
C5_Witness ==
    /\ last.op = "from_dict"
    /\ obj.attrs # EmptyDict
    /\ db_of(obj.cls) = "db1"
    /\ working[table_name(obj.cls)].exists
    /\ \A r \in working[table_name(obj.cls)].rows : RowDict(r) # obj.attrs

\* No class has a database: Model._db is None and no subclass has its own.
NoDatabase == \A c \in Classes : db_of(c) = "None"

\* C9: while no database has been set, create_table, save, get, all, where and
\* delete raise ValueError, send no statement, and leave the instance and the
\* tables as they were.
C9_NoDatabaseRaises ==
    [][(NoDatabase /\ last'.op \in {"create_table", "save", "get", "all", "where", "delete"})
        => /\ last'.exc = "ValueError"
           /\ last'.log = <<>>
           /\ obj' = obj
           /\ working' = working]_vars

\* C9 happens: an instance with values was saved while no database was set.
C9_Witness ==
    /\ NoDatabase
    /\ last.op = "save"
    /\ last.exc = "ValueError"
    /\ obj.attrs # EmptyDict

\* C10: after set_database(db) on any model class, every model class uses db.
C10_SetDatabaseForAll ==
    last.op = "set_database" => \A c \in Classes : db_of(c) = "db1"

(***************************************************************************)
(* Database / Table (database.py): the fluent query builder, on the table  *)
(* "users" (id INTEGER PRIMARY KEY AUTOINCREMENT, name TEXT).              *)
(* tbl is the Table object: _where, _order_by, _limit (each optional) and  *)
(* _params.  A condition is a sequence of comparisons; <<>> is "".         *)
(***************************************************************************)
BMDB_create_table(conn, table_name_, schema) ==
    BMDB_execute(conn, [op |-> "CREATE", table |-> table_name_, columns |-> schema])

\* `if self._where` / `if not self._where`: None and "" are both false.
Truthy(opt) == opt # <<>> /\ opt[1] # <<>>

Table_get(conn, t) ==
    BMDB_select(conn, "users", t.where, t.params, t.limit,
                IF t.order_by = <<>> THEN "" ELSE t.order_by[1])

Table_count(conn, t) ==
    BMDB_execute(conn, [op |-> "SELECT", table |-> "users",
                        where |-> IF Truthy(t.where) THEN t.where[1] ELSE <<>>,
                        params |-> t.params, order_by |-> "", limit |-> <<>>,
                        count |-> TRUE])

Table_insert(conn, t, data) == BMDB_insert(conn, "users", data)

\* Table_update without the `if not self._where` check.
Table_update_unchecked(conn, t, data) ==
    BMDB_update(conn, "users", data, t.where, t.params)

Table_update(conn, t, data) ==
    IF ~ Truthy(t.where) THEN Result(conn, "ValueError", <<>>, <<>>, FALSE)
    ELSE BMDB_update(conn, "users", data, t.where, t.params)

\* Table_delete without the `if not self._where` check, the WHERE clause left
\* out of the statement when there is no condition.
Table_delete_unchecked(conn, t) ==
    IF ~ Truthy(t.where)
        THEN LET db == [conn.working EXCEPT !["users"].rows = {}]
             IN  Result([conn EXCEPT !.working = db, !.committed = db], "none", <<>>,
                        <<[op |-> "DELETE", table |-> "users", where |-> <<>>,
                           params |-> <<>>]>>, FALSE)
        ELSE BMDB_delete(conn, "users", t.where, t.params)

Table_delete(conn, t) ==
    IF ~ Truthy(t.where) THEN Result(conn, "ValueError", <<>>, <<>>, FALSE)
    ELSE BMDB_delete(conn, "users", t.where, t.params)

\* The chain a builder call belongs to: the one in progress, or a new one.
Current == IF chain.open THEN chain ELSE NewChain

\* db.create_table("users", {...}) as in example_basic
create_users ==
    \E r \in {BMDB_create_table(Conn, "users", fields("User"))} :
        /\ Called(r, "create_table")
        /\ UNCHANGED <<clsdb, obj, tbl, chain, apart>>

\* users_table = db.table("users")
Database_table ==
    /\ tbl' = NewTable
    /\ chain' = NewChain
    /\ NoCall("table")
    /\ UNCHANGED <<clsdb, obj, apart>>

t_where(condition, params) ==
    /\ Len(tbl.params) + Len(params) <= MaxParams
    /\ tbl' = [tbl EXCEPT !.where = <<condition>>, !.params = @ \o params]
    /\ chain' = [Current EXCEPT !.where = <<condition>>, !.params = @ \o params]
    /\ NoCall("where")
    /\ UNCHANGED <<clsdb, obj, apart>>

t_order_by(direction) ==
    /\ tbl' = [tbl EXCEPT !.order_by = <<direction>>]
    /\ chain' = Current
    /\ NoCall("order_by")
    /\ UNCHANGED <<clsdb, obj, apart>>

t_limit(count) ==
    /\ tbl' = [tbl EXCEPT !.limit = <<count>>]
    /\ chain' = Current
    /\ NoCall("limit")
    /\ UNCHANGED <<clsdb, obj, apart>>

\* The chain's last call, with outcome r.
Terminal(r, op) ==
    /\ Called(r, op)
    /\ chain' = [Current EXCEPT !.open = FALSE,
                   !.sent = IF r.log = <<>> THEN <<>>
                            ELSE <<[where |-> r.log[1].where, params |-> r.log[1].params]>>]
    /\ UNCHANGED <<clsdb, obj, apart>>

t_get ==
    \E r \in {Table_get(Conn, tbl)} :
        /\ Terminal(r, "get")
        /\ UNCHANGED tbl

t_first ==
    \E r \in {Table_get(Conn, [tbl EXCEPT !.limit = <<1>>])} :
        /\ tbl' = [tbl EXCEPT !.limit = <<1>>]
        /\ Terminal(r, "first")

t_count ==
    \E r \in {Table_count(Conn, tbl)} :
        /\ Terminal(r, "count")
        /\ UNCHANGED tbl

t_insert(data) ==
    \E r \in {Table_insert(Conn, tbl, data)} :
        /\ Called(r, "insert")
        /\ UNCHANGED <<clsdb, obj, tbl, chain, apart>>

t_update(data) ==
    \E r \in {Table_update(Conn, tbl, data)} :
        /\ Terminal(r, "update")
        /\ UNCHANGED tbl

t_delete ==
    \E r \in {Table_delete(Conn, tbl)} :
        /\ Terminal(r, "delete")
        /\ UNCHANGED tbl

\* Largest argument of limit().
MaxLimit == 1

Limits == 0..MaxLimit

\* The where() calls a program makes: where(""), where("id >= ?", 2),
\* where("id = ?", 1).
WhereCalls ==
    { [condition |-> <<>>, params |-> <<>>],
      [condition |-> <<[col |-> "id", cmp |-> ">="]>>, params |-> <<2>>],
      [condition |-> <<[col |-> "id", cmp |-> "="]>>, params |-> <<1>>] }

NextTable ==
    \/ create_users
    \/ Database_table
    \/ \E w \in WhereCalls : t_where(w.condition, w.params)
    \/ t_order_by("DESC")
    \/ \E n \in Limits : t_limit(n)
    \/ t_get
    \/ t_first
    \/ t_count
    \/ \E n \in Names : t_insert("name" :> n)
    \/ \E n \in Names : t_update("name" :> n)
    \/ t_delete

SpecTable == Init /\ [][NextTable]_vars

\* C6: the condition and the parameters of the statement a chain sends are
\* exactly those the where() calls of that chain gave it.
C6_ChainScoped ==
    (~ chain.open /\ chain.sent # <<>>)
        => /\ chain.sent[1].where = Unwrap(chain.where)
           /\ chain.sent[1].params = chain.params

\* The Table in hand has no condition: where() was not called, or with "".
NoCondition == tbl.where = <<>> \/ tbl.where = << <<>> >>

\* C8: update(data) and delete() on a Table without a condition raise
\* ValueError, send no statement, and leave the tables as they were.
C8_NoWhereRaises ==
    [][(last'.op \in {"update", "delete"} /\ NoCondition)
        => /\ last'.exc = "ValueError"
           /\ last'.log = <<>>
           /\ working' = working
           /\ committed' = committed]_vars

\* C8 happens: delete() was called on a Table without a condition while the
\* table had rows.
C8_Witness ==
    /\ last.op = "delete"
    /\ last.exc = "ValueError"
    /\ NoCondition
    /\ working["users"].rows # {}

(***************************************************************************)
(* BMDB.execute on statements a caller writes, on the table "users".       *)
(***************************************************************************)
\* db.execute(sql, params)
execute(stmt) ==
    \E r \in {BMDB_execute(Conn, stmt)} :
        /\ Called(r, "execute")
        /\ UNCHANGED <<clsdb, obj, tbl, chain, apart>>

UserRows == {("id" :> i) @@ ("name" :> n) : i \in Ids, n \in Names}

\* INSERT [OR FAIL] INTO users (id, name) VALUES (?, ?) [, (?, ?)]
InsertStatements ==
    {[op |-> "INSERT", table |-> "users", rows |-> rows, or_fail |-> f] :
        rows \in {<<r>> : r \in UserRows} \cup {<<r, q>> : r \in UserRows, q \in UserRows},
        f \in BOOLEAN}

IdEquals == <<[col |-> "id", cmp |-> "="]>>

\* UPDATE users SET id = ? WHERE id = ?
UpdateStatements ==
    {[op |-> "UPDATE", table |-> "users", data |-> "id" :> j,
      where |-> IdEquals, params |-> <<i>>] : i \in Ids, j \in Ids}

\* DELETE FROM users WHERE id = ?, with and without its parameter
DeleteStatements ==
    {[op |-> "DELETE", table |-> "users", where |-> IdEquals, params |-> p] :
        p \in {<<>>} \cup {<<i>> : i \in Ids}}

\* SELECT * FROM users
SelectStatement ==
    [op |-> "SELECT", table |-> "users", where |-> <<>>, params |-> <<>>,
     order_by |-> "", limit |-> <<>>, count |-> FALSE]

NextExec ==
    \/ create_users
    \/ \E stmt \in InsertStatements : execute(stmt)
    \/ \E stmt \in UpdateStatements : execute(stmt)
    \/ \E stmt \in DeleteStatements : execute(stmt)
    \/ execute(SelectStatement)

SpecExec == Init /\ [][NextExec]_vars

\* C7: when the statement succeeds, what it did is committed when execute
\* returns; when it raises, nothing of it is left and the database is what it
\* was before the call, the work of earlier executes included.
C7_CommitOrRollback ==
    [][(last'.op = "execute")
        => IF last'.exc = "none"
           THEN /\ committed' = working'
                /\ last'.log[1].op # "SELECT"
                      => committed' = CursorExecute(working, last'.log[1]).db
           ELSE /\ working' = working
                /\ committed' = committed
                /\ committed' = working']_vars

\* C7 happens: an INSERT OR FAIL of two rows raised on its second row after
\* its first row had gone in, and the rows of earlier executes are there.
C7_Witness ==
    /\ last.op = "execute"
    /\ last.exc = "IntegrityError"
    /\ last.log[1].op = "INSERT"
    /\ last.log[1].or_fail
    /\ Len(last.log[1].rows) = 2
    /\ working["users"].rows # {}
    /\ \A r \in working["users"].rows : r.rowid # last.log[1].rows[1]["id"]
    /\ committed = working

(***************************************************************************)
(* Field.to_sql, applied to Field descriptors with every combination of    *)
(* the flags and defaults of both types, falsy ones (0, '') included.      *)
(***************************************************************************)
Defaults == {NoDefault, IntDefault(0), IntDefault(1), StrDefault(""), StrDefault("x")}

Fields ==
    {FieldOf(n, t, pk, nu, d, u, a) :
        n \in {"id", "name"}, t \in {"INTEGER", "TEXT"}, pk \in BOOLEAN,
        nu \in BOOLEAN, d \in Defaults, u \in BOOLEAN, a \in BOOLEAN}

\* sep.join(parts)
RECURSIVE Join(_, _)
Join(parts, sep) ==
    IF Len(parts) = 0 THEN ""
    ELSE IF Len(parts) = 1 THEN parts[1]
    ELSE parts[1] \o sep \o Join(Tail(parts), sep)

\* f"{value}" of a default value: str() of an int, a str as it is.
Format(d) == IF d.type = "str" THEN d.str ELSE ToString(d.int)

\* parts.append(part) when cond holds.
AppendIf(parts, cond, part) == IF cond THEN Append(parts, part) ELSE parts

\* The DEFAULT part, for a default that is not None.
DefaultPart(d) ==
    IF d.type = "str" THEN "DEFAULT '" \o Format(d) \o "'" ELSE "DEFAULT " \o Format(d)

\* `if self.default:` in place of `if self.default is not None:`.
Field_to_sql_truthy(f) ==
    LET p0 == <<f.name, f.type>>
        p1 == AppendIf(p0, f.primary_key, "PRIMARY KEY")
        p2 == AppendIf(p1, ~ f.nullable, "NOT NULL")
        p3 == AppendIf(p2, f.unique, "UNIQUE")
        p4 == IF f.default # <<>> /\ Format(f.default[1]) \notin {"", "0"}
                  THEN Append(p3, DefaultPart(f.default[1])) ELSE p3
        p5 == AppendIf(p4, f.auto_increment, "AUTOINCREMENT")
    IN  Join(p5, " ")

\* UNIQUE appended before NOT NULL.
Field_to_sql_unique_first(f) ==
    LET p0 == <<f.name, f.type>>
        p1 == AppendIf(p0, f.primary_key, "PRIMARY KEY")
        p2 == AppendIf(p1, f.unique, "UNIQUE")
        p3 == AppendIf(p2, ~ f.nullable, "NOT NULL")
        p4 == IF f.default # <<>> THEN Append(p3, DefaultPart(f.default[1])) ELSE p3
        p5 == AppendIf(p4, f.auto_increment, "AUTOINCREMENT")
    IN  Join(p5, " ")

Field_to_sql(f) ==
    LET p0 == <<f.name, f.type>>
        p1 == AppendIf(p0, f.primary_key, "PRIMARY KEY")
        p2 == AppendIf(p1, ~ f.nullable, "NOT NULL")
        p3 == AppendIf(p2, f.unique, "UNIQUE")
        p4 == IF f.default # <<>> THEN Append(p3, DefaultPart(f.default[1])) ELSE p3
        p5 == AppendIf(p4, f.auto_increment, "AUTOINCREMENT")
    IN  Join(p5, " ")

InitField ==
    /\ InitCommon
    /\ field \in Fields
    /\ bm = MemoryBMDB

\* sql = field.to_sql()
to_sql ==
    /\ sql' = Field_to_sql(field)
    /\ NoCall("to_sql")
    /\ UNCHANGED <<clsdb, obj, tbl, chain, field, bm, cli>>

NextField == to_sql

SpecField == InitField /\ [][NextField]_vars

\* The column definition the flags call for: the name and the type, then
\* each optional part, with the space before it, exactly when its flag asks.
ColumnDefinition(f) ==
    f.name \o " " \o f.type
        \o (IF f.primary_key THEN " PRIMARY KEY" ELSE "")
        \o (IF f.nullable THEN "" ELSE " NOT NULL")
        \o (IF f.unique THEN " UNIQUE" ELSE "")
        \o (IF f.default = <<>> THEN ""
            ELSE IF f.default[1].type = "str" THEN " DEFAULT '" \o f.default[1].str \o "'"
            ELSE " DEFAULT " \o ToString(f.default[1].int))
        \o (IF f.auto_increment THEN " AUTOINCREMENT" ELSE "")

\* C11: Field.to_sql() is the space-joined sequence name, type, then
\* PRIMARY KEY iff primary_key, NOT NULL iff not nullable, UNIQUE iff unique,
\* DEFAULT <v> iff default is not None (single-quoted for a string),
\* AUTOINCREMENT iff auto_increment, in that order, for every combination.
C11_ToSqlColumnDefinition ==
    last.op = "to_sql" => sql = ColumnDefinition(field)

\* to_sql has run on a field with every flag set and a falsy int default.
C11_Witness ==
    /\ last.op = "to_sql"
    /\ field.primary_key /\ ~ field.nullable /\ field.unique /\ field.auto_increment
    /\ field.default = IntDefault(0)
    /\ sql = "id INTEGER PRIMARY KEY NOT NULL UNIQUE DEFAULT 0 AUTOINCREMENT"

(***************************************************************************)
(* LIMIT.                                                                  *)
(***************************************************************************)
\* C12: Table.limit(n).get() returns at most n rows, for every n >= 0.
C12_LimitIsMaximum ==
    (last.op = "get" /\ last.exc = "none" /\ tbl.limit # <<>>)
        => last.returned <= tbl.limit[1]

(***************************************************************************)
(* Model.get.                                                              *)
(***************************************************************************)
\* The rows of the class's table that satisfy every field = value of kwargs.
Satisfying(cls, kwargs) ==
    {row \in working[table_name(cls)].rows :
        \A i \in DOMAIN kwargs :
            kwargs[i].k \in DOMAIN row /\ row[kwargs[i].k] = kwargs[i].v}

\* C15: with a database set, Model.get() without keyword arguments raises
\* ValueError and sends nothing; with keyword arguments on an existing table
\* it returns None when no row satisfies all of the field = value conditions,
\* and else one instance built from a row that satisfies all of them.
C15_GetConjunction ==
    [][last'.op = "get" => \A cls \in Subclasses : \A kwargs \in GetKwargs(cls) :
          (get(cls, kwargs) /\ db_of(cls) # "None") =>
              IF kwargs = <<>>
                  THEN last'.exc = "ValueError" /\ last'.log = <<>> /\ obj' = obj
              ELSE IF ~ working[table_name(cls)].exists
                  THEN last'.exc = "OperationalError" /\ obj' = obj
              ELSE IF Satisfying(cls, kwargs) = {}
                  THEN last'.exc = "none" /\ last'.returned = 0 /\ obj' = obj
              ELSE /\ last'.exc = "none" /\ last'.returned = 1
                   /\ obj'.cls = cls
                   /\ \E row \in Satisfying(cls, kwargs) :
                          obj'.attrs = Restrict(RowDict(row), FieldNames(cls))
      ]_vars

\* get has returned the instance of one row of a table that holds two.
C15_Witness ==
    /\ last.op = "get" /\ last.exc = "none" /\ last.returned = 1
    /\ obj.cls = "User" /\ DOMAIN obj.attrs = {"id", "name"}
    /\ Cardinality(working["users"].rows) = 2
    /\ \E row \in working["users"].rows : RowDict(row) # obj.attrs

(***************************************************************************)
(* save() on a model with an auto-increment primary key.                   *)
(***************************************************************************)
AutoIncrement(cls) == pk_field(cls) # <<>> /\ pk_field(cls)[1].auto_increment

StartsWith(s, prefix) ==
    Len(s) >= Len(prefix) /\ SubSeq(s, 1, Len(prefix)) = prefix

\* s.replace(old, new): every occurrence, left to right.
RECURSIVE Replace(_, _, _)
Replace(s, old, new) ==
    IF Len(s) < Len(old) THEN s
    ELSE IF SubSeq(s, 1, Len(old)) = old
        THEN new \o Replace(SubSeq(s, Len(old) + 1, Len(s)), old, new)
    ELSE SubSeq(s, 1, 1) \o Replace(SubSeq(s, 2, Len(s)), old, new)

\* BMDB.connect that takes any string with "://" in the sixth place for a
\* database it supports.
BMDB_connect_any_scheme(b) ==
    IF Len(b.connection_string) >= 8 /\ SubSeq(b.connection_string, 6, 8) = "://"
    THEN [bm |-> [b EXCEPT !.connection = "open", !.opened = @ + 1],
          exc |-> "none",
          db_path |-> Replace(b.connection_string, "sqlite:///", "")]
    ELSE [bm |-> b, exc |-> "ValueError", db_path |-> ""]

\* BMDB.connect on the object b: the object afterwards, the exception that
\* left the call, and the path handed to sqlite3.connect.
BMDB_connect(b) ==
    IF StartsWith(b.connection_string, "sqlite:///")
    THEN [bm |-> [b EXCEPT !.connection = "open", !.opened = @ + 1],
          exc |-> "none",
          db_path |-> Replace(b.connection_string, "sqlite:///", "")]
    ELSE [bm |-> b, exc |-> "ValueError", db_path |-> ""]

\* BMDB.__init__
BMDB_init(connection_string) ==
    BMDB_connect(BMDBOf(connection_string, "None", 0, "out"))

\* BMDB.close that leaves the connection as it is.
BMDB_close_nothing(b) == b

\* BMDB.close: sqlite3 closes an open connection and takes close() on a closed
\* one without complaint.
BMDB_close(b) ==
    IF b.connection # "None" THEN [b EXCEPT !.connection = "closed"] ELSE b

\* BMDB.__exit__: the object afterwards, and whether the return value is true
\* (which would swallow the block's exception).
BMDB_exit(b) == [bm |-> BMDB_close(b), swallow |-> FALSE]

\* self.connection.cursor(): what it raises.
Connection_cursor(b) ==
    CASE b.connection = "open"   -> "none"
      [] b.connection = "closed" -> "ProgrammingError"
      [] OTHER                   -> "AttributeError"

\* BMDB.execute on the object b: the cursor is asked for before the try.
BMDB_execute_on(b, conn, stmt) ==
    IF Connection_cursor(b) # "none"
        THEN Result(conn, Connection_cursor(b), <<>>, <<>>, FALSE)
        ELSE BMDB_execute(conn, stmt)

\* No BMDB object yet.
NoBMDB == BMDBOf("", "None", 0, "out")

InitConn ==
    /\ InitCommon
    /\ field = PlainField
    /\ bm = NoBMDB

ConnectionStrings ==
    {"sqlite:///:memory:", "sqlite:///test.db", "sqlite://test.db",
     "SQLITE:///test.db", "mysql://host/db", "test.db", ""}

\* A call that touches no database: its record in `last`.
Did(op, exc) ==
    /\ last' = [op |-> op, exc |-> exc, log |-> <<>>, removed |-> 0, added |-> 0,
                returned |-> 0]
    /\ UNCHANGED <<committed, working>>

\* db = BMDB(connection_string), until one construction has succeeded.
New(connection_string) ==
    /\ bm.connection = "None"
    /\ \E r \in {BMDB_init(connection_string)} :
          /\ bm' = r.bm
          /\ Did("new", r.exc)
    /\ UNCHANGED <<clsdb, obj, tbl, chain, field, sql, cli>>

\* with db: -- __enter__
Enter ==
    /\ bm.connection # "None"
    /\ bm.block = "out"
    /\ bm' = [bm EXCEPT !.block = "in"]
    /\ Did("enter", "none")
    /\ UNCHANGED <<clsdb, obj, tbl, chain, field, sql, cli>>

\* The with-block is left, by its end or by an exception raised in it:
\* __exit__, and the exception goes on unless __exit__ returned true.
Leave(raised) ==
    /\ bm.block = "in"
    /\ \E r \in {BMDB_exit(bm)} :
          /\ bm' = [r.bm EXCEPT !.block = "out"]
          /\ last' = [op |-> "exit",
                      exc |-> IF raised /\ ~ r.swallow THEN "Exception" ELSE "none",
                      log |-> <<>>, removed |-> 0, added |-> 0, returned |-> 0]
          /\ committed' = committed
          /\ working' = IF r.bm.connection = "closed" THEN committed ELSE working
    /\ UNCHANGED <<clsdb, obj, tbl, chain, field, sql, cli>>

\* db.close(); closing drops an open transaction.
Close ==
    /\ bm.connection # "None"
    /\ \E b \in {BMDB_close(bm)} :
          /\ bm' = b
          /\ last' = [op |-> "close", exc |-> "none", log |-> <<>>,
                      removed |-> 0, added |-> 0, returned |-> 0]
          /\ committed' = committed
          /\ working' = IF b.connection = "closed" THEN committed ELSE working
    /\ UNCHANGED <<clsdb, obj, tbl, chain, field, sql, cli>>

\* db.execute(sql, params) on the object in hand
execute_on(stmt) ==
    /\ bm.connection # "None"
    /\ \E r \in {BMDB_execute_on(bm, Conn, stmt)} : Called(r, "execute")
    /\ UNCHANGED <<clsdb, obj, tbl, chain, apart>>

CreateUsers == [op |-> "CREATE", table |-> "users", columns |-> fields("User")]

NextConn ==
    \/ \E cs \in ConnectionStrings : New(cs)
    \/ Enter
    \/ \E raised \in BOOLEAN : Leave(raised)
    \/ Close
    \/ execute_on(CreateUsers)
    \/ \E stmt \in InsertStatements : execute_on(stmt)
    \/ \E stmt \in DeleteStatements : execute_on(stmt)
    \/ execute_on(SelectStatement)

SpecConn == InitConn /\ [][NextConn]_vars

\* cs is "sqlite:///" followed by something (possibly nothing).
Sqlite3Slashes(cs) ==
    \E n \in 0..Len(cs) : cs = "sqlite:///" \o SubSeq(cs, Len(cs) - n + 1, Len(cs))

\* C13: constructing a BMDB opens exactly one connection, which the object
\* holds, when the connection string starts with 'sqlite:///'; with any other
\* string it raises ValueError, opens none, and connection stays None.
C13_ConstructorConnects ==
    [][last'.op = "new" => \A cs \in ConnectionStrings :
          New(cs) =>
              IF Sqlite3Slashes(cs)
              THEN last'.exc = "none" /\ bm'.connection = "open" /\ bm'.opened = 1
              ELSE last'.exc = "ValueError" /\ bm'.connection = "None"
                   /\ bm'.opened = 0
      ]_vars

\* A constructor call with two slashes only has raised ValueError.
C13_Witness ==
    /\ last.op = "new" /\ last.exc = "ValueError"
    /\ bm.connection_string = "sqlite://test.db"
    /\ bm.connection = "None"

\* C14: leaving the with-block closes the connection, on normal exit and when
\* the block raised, and then the exception goes on; close() on a closed
\* connection raises nothing and leaves it closed; execute on a closed
\* connection raises and leaves the database as it was.
C14_ClosedOnLeave ==
    [][/\ \A raised \in BOOLEAN :
            Leave(raised) =>
                /\ bm'.connection = "closed"
                /\ last'.exc = IF raised THEN "Exception" ELSE "none"
       /\ (last'.op = "close" /\ bm.connection = "closed") =>
                last'.exc = "none" /\ bm'.connection = "closed"
       /\ (last'.op = "execute" /\ bm.connection = "closed") =>
                /\ last'.exc \notin {"none"}
                /\ last'.log = <<>>
                /\ committed' = committed /\ working' = working
                /\ bm'.connection = "closed"
      ]_vars

\* An execute has failed on a closed connection, outside any with-block, with
\* rows in the database.
C14_Witness ==
    /\ last.op = "execute" /\ last.exc = "ProgrammingError"
    /\ bm.connection = "closed" /\ bm.block = "out"
    /\ committed["users"].rows # {}

(***************************************************************************)
(* The command line (cli.py): one step per run of `bmdb COMMAND DATABASE`. *)
(* committed/working are the file test.db, which outlives the runs; a run  *)
(* on :memory: works on a database of its own that ends with the run.      *)
(***************************************************************************)
\* What a handler hands back: its return value, the connection it worked on
\* as it leaves it, and the statements it sent.
Handled(code, conn, log, full) ==
    [code |-> code, conn |-> conn, log |-> log, full |-> full]

\* The database a BMDB opened on db_path works on: the file's, or a new empty
\* one for ":memory:".
Opened(conn, db_path) ==
    IF db_path = ":memory:"
        THEN [committed |-> EmptyDatabase, working |-> EmptyDatabase, rowid |-> 0]
        ELSE conn

\* The shell's loop over the commands typed before `exit`: each is executed,
\* and an exception is printed and the loop goes on.
RECURSIVE ShellLoop(_, _)
ShellLoop(h, commands) ==
    IF commands = <<>> THEN h
    ELSE The({ ShellLoop(Handled(0, r.conn, h.log \o r.log, h.full \/ r.full),
                         Tail(commands)) :
               r \in {BMDB_execute(h.conn, Head(commands))} })

handle_shell(conn, database, commands) ==
    The({ IF b.exc # "none" THEN Handled(1, conn, <<>>, FALSE)
          ELSE ShellLoop(Handled(0, Opened(conn, b.db_path), <<>>, FALSE), commands) :
          b \in {BMDB_init(database)} })

handle_query(conn, database, stmt) ==
    The({ IF b.exc # "none" THEN Handled(1, conn, <<>>, FALSE)
          ELSE The({ Handled(IF r.exc = "none" THEN 0 ELSE 1, r.conn, r.log, r.full) :
                     r \in {BMDB_execute(Opened(conn, b.db_path), stmt)} }) :
          b \in {BMDB_init(database)} })

\* handle_table for `list`, for `create users --schema ...` (schema "" when
\* the option is not given) and for `describe` without a name.
handle_table(conn, database, action, name, schema) ==
    The({ IF b.exc # "none" THEN Handled(1, conn, <<>>, FALSE)
          ELSE IF action = "list" THEN Handled(0, Opened(conn, b.db_path), <<>>, FALSE)
          ELSE IF action = "create" /\ name # ""
              THEN IF schema = "" THEN Handled(1, Opened(conn, b.db_path), <<>>, FALSE)
                   ELSE The({ Handled(IF r.exc = "none" THEN 0 ELSE 1, r.conn, r.log, r.full) :
                              r \in {BMDB_create_table(Opened(conn, b.db_path), name,
                                                       fields("User"))} })
          ELSE Handled(1, Opened(conn, b.db_path), <<>>, FALSE) :
          b \in {BMDB_init(database)} })

\* The run ends: what it left in the file is what was committed, and nothing
\* of a run on another database.
AfterRun(database, h, command) ==
    /\ ~ h.full
    /\ committed' = IF StartsWith(database, "sqlite:///")
                         /\ Replace(database, "sqlite:///", "") # ":memory:"
                     THEN h.conn.committed ELSE committed
    /\ working' = committed'
    /\ last' = [op |-> "main", exc |-> "none",
                log |-> [i \in DOMAIN h.log |-> Logged(h.log[i])],
                removed |-> Cardinality(RowsOf(working) \ RowsOf(working')),
                added |-> Cardinality(RowsOf(working') \ RowsOf(working)),
                returned |-> 0]
    /\ cli' = [command |-> command, database |-> database, code |-> h.code]
    /\ UNCHANGED <<clsdb, obj, tbl, chain, field, sql, bm>>

\* bmdb shell DATABASE, with the commands typed
main_shell(database, commands) ==
    \E h \in {handle_shell(Conn, database, commands)} : AfterRun(database, h, "shell")

\* bmdb query DATABASE SQL
main_query(database, stmt) ==
    \E h \in {handle_query(Conn, database, stmt)} : AfterRun(database, h, "query")

\* bmdb table DATABASE ACTION [NAME] [--schema SCHEMA]
main_table(database, action, name, schema) ==
    \E h \in {handle_table(Conn, database, action, name, schema)} :
        AfterRun(database, h, "table")

\* The DATABASE arguments: the connection strings of the epilog and of the
\* default, and the plain filename of the help text.
PlainFilenames == {"test.db"}

Databases == {"sqlite:///test.db", "sqlite:///:memory:"} \cup PlainFilenames

\* One-row INSERTs, as typed at the shell or given to `query`.
TypedStatements ==
    {stmt \in InsertStatements : Len(stmt.rows) = 1 /\ ~ stmt.or_fail}
        \cup DeleteStatements \cup {SelectStatement}

NextCli ==
    \/ \E d \in Databases : main_shell(d, <<>>)
    \/ \E d \in Databases : \E stmt \in TypedStatements : main_shell(d, <<stmt>>)
    \/ \E d \in Databases : \E stmt \in TypedStatements : main_query(d, stmt)
    \/ \E d \in Databases : main_table(d, "list", "", "")
    \/ \E d \in Databases : \E schema \in {"", "{...}"} :
            main_table(d, "create", "users", schema)
    \/ \E d \in Databases : main_table(d, "describe", "", "")

SpecCli == Init /\ [][NextCli]_vars

\* C16: `bmdb shell DATABASE` with a plain filename for DATABASE opens that
\* database and returns exit code 0.
C16_PlainFilenameOpens ==
    (cli.command = "shell" /\ cli.database \in PlainFilenames) => cli.code = 0

====
